---------------------------- MODULE Spec2Model ----------------------------
(***************************************************************************)
(* YardWatch backend: the Statcast aggregation and caching engine          *)
(* (backend/app/services/statcast.py) and the routers that call it         *)
(* (backend/app/routers/batters.py, pitchers.py).                          *)
(*                                                                         *)
(* A DataFrame is a record [columns, rows]: the set of column names and    *)
(* the sequence of rows.  A profile object is a record with an object      *)
(* identity field `oid`: Python stores references, so every holder of a    *)
(* reference (a cache entry, the result list of a batch call in flight)    *)
(* holds a copy tagged with the same oid, and an attribute assignment      *)
(* updates every copy with that oid.                                       *)
(*                                                                         *)
(* Decimals are scaled integers: usage_pct and whiff_pct in tenths,        *)
(* batting_avg and slg_pct in thousandths, hr_rate in ten-thousandths,     *)
(* run values in hundredths.                                               *)
(***************************************************************************)
EXTENDS Integers, Sequences, FiniteSets, TLC

VARIABLES
    now,                 \* the monotonic clock read by TTLCache, in seconds
    provider,            \* the frame the provider has answered with, by role and player
    _pitcher_cache,      \* statcast.py:23, TTLCache: entries in LRU order
    _batter_cache,       \* statcast.py:24, TTLCache: entries in LRU order
    _season_data_cache,  \* statcast.py:25, a plain dict: season -> frame name
    batch,               \* the get_batters_batch calls in flight, by request slot
    last,                \* the handler call that completed last, and its outcome
    calls,               \* number of handler calls started so far
    hist,                \* history: what was stored when, what was evicted
    agg                  \* an event collection and what the builders make of it

vars == <<now, provider, _pitcher_cache, _batter_cache, _season_data_cache,
          batch, last, calls, hist, agg>>

---------------------------------------------------------------------------
(* Bounds of the model                                                     *)

\* batter ids are 1..MaxBatterId
MaxBatterId == 2
\* longest batter_ids list of a batch request
MaxBatch == 2
\* handler calls per behaviour
MaxCalls == 2
\* the clock advances in steps of TickStep seconds, at most MaxTicks times
TickStep == 1800
MaxTicks == 3
\* maxsize of the two TTLCaches (500 in statcast.py:23-24), scaled down so
\* that a cache can fill up
MaxSize == 2

(* Program constants                                                       *)
cache_ttl_pitchers == 3600
cache_ttl_batters == 3600
current_season == 2025
min_pitches_for_pitch_type == 50
min_pitches_seen == 20
max_workers == 3

\* the spec's season raw-data cache: "long TTL, small capacity - one entry
\* per season actively in use" (the code configures neither)
SeasonTTL == 3600
SeasonMaxSize == 1

BatterIds == 1..MaxBatterId
PitcherIds == {1}
Seasons == {2024, 2025}
Reqs == {1, 2}
NoSeason == 0
NULL == "NULL"
None == [oid |-> 0]

---------------------------------------------------------------------------
(* Arithmetic helpers                                                      *)

\* rounding up to the next unit instead
RoundCeil(num, den) == (num + den - 1) \div den

\* Python round(num/den * 10^k) for a non-negative ratio: nearest, ties to even
RoundHalfEven(num, den) ==
    LET q == num \div den
        r == num % den
    IN  IF 2 * r < den THEN q
        ELSE IF 2 * r > den THEN q + 1
        ELSE IF q % 2 = 0 THEN q ELSE q + 1

Rep(x, n) == [i \in 1..n |-> x]

---------------------------------------------------------------------------
(* float64, the dtype of delta_run_exp.  A float is a sign and a magnitude *)
(* held exactly as a whole number of units of 2^-GridBits, written as      *)
(* NLimbs digits in base 2^LimbBits, least significant first.  Every       *)
(* double that is 0 or at least 2^(Precision - 1 - GridBits) in magnitude  *)
(* is such a whole number; an addition rounds its exact result to          *)
(* Precision significant bits, ties to even, as IEEE 754 does.             *)

LimbBits == 15
NLimbs == 6
GridBits == 60
Precision == 53

Base == 2 ^ LimbBits
Limbs == 1..NLimbs
BigZero == [i \in Limbs |-> 0]

RECURSIVE Carry(_, _, _)
Carry(a, b, i) ==
    IF i = 0 THEN 0 ELSE (a[i] + b[i] + Carry(a, b, i - 1)) \div Base

BigAdd(a, b) == [i \in Limbs |-> (a[i] + b[i] + Carry(a, b, i - 1)) % Base]

\* a - b for a >= b
RECURSIVE Borrow(_, _, _)
Borrow(a, b, i) ==
    IF i = 0 THEN 0
    ELSE IF a[i] - b[i] - Borrow(a, b, i - 1) < 0 THEN 1 ELSE 0

BigSub(a, b) ==
    [i \in Limbs |-> (Base + a[i] - b[i] - Borrow(a, b, i - 1)) % Base]

BigLess(a, b) ==
    \E i \in Limbs : a[i] < b[i] /\ \A j \in Limbs : j > i => a[j] = b[j]

\* a * k and a \div k for a small natural k
RECURSIVE MulCarry(_, _, _)
MulCarry(a, k, i) ==
    IF i = 0 THEN 0 ELSE (a[i] * k + MulCarry(a, k, i - 1)) \div Base

BigMulSmall(a, k) == [i \in Limbs |-> (a[i] * k + MulCarry(a, k, i - 1)) % Base]

RECURSIVE DivRem(_, _, _)
DivRem(a, k, i) ==
    IF i > NLimbs THEN 0 ELSE (DivRem(a, k, i + 1) * Base + a[i]) % k

BigDivSmall(a, k) ==
    [i \in Limbs |-> (DivRem(a, k, i + 1) * Base + a[i]) \div k]

\* the number of significant bits of a
BitLen(a) ==
    IF a = BigZero THEN 0
    ELSE LET t == CHOOSE i \in Limbs : a[i] # 0 /\ \A j \in Limbs : j > i => a[j] = 0
         IN  LimbBits * (t - 1)
               + (CHOOSE k \in 1..LimbBits : 2 ^ (k - 1) <= a[t] /\ a[t] < 2 ^ k)

\* bit k of a, bit 0 the least significant
Bit(a, k) == (a[(k \div LimbBits) + 1] \div (2 ^ (k % LimbBits))) % 2

\* the d least significant bits of a
LowBits(a, d) ==
    [i \in Limbs |->
        IF LimbBits * i <= d THEN a[i]
        ELSE IF LimbBits * (i - 1) >= d THEN 0
        ELSE a[i] % (2 ^ (d - LimbBits * (i - 1)))]

BigPow2(d) ==
    [i \in Limbs |-> IF (d \div LimbBits) + 1 = i THEN 2 ^ (d % LimbBits) ELSE 0]

\* a rounded to a multiple of 2^d, to nearest, ties to the even multiple;
\* sticky tells that something below a was already cut off
RoundAt(a, d, sticky) ==
    IF d <= 0 THEN a
    ELSE IF Bit(a, d - 1) = 1
            /\ (sticky \/ LowBits(a, d - 1) # BigZero \/ Bit(a, d) = 1)
         THEN BigAdd(BigSub(a, LowBits(a, d)), BigPow2(d))
         ELSE BigSub(a, LowBits(a, d))

\* the nearest double of an exact magnitude
RoundToPrecision(a) == RoundAt(a, BitLen(a) - Precision, FALSE)

\* x + y of two doubles
FloatAdd(x, y) ==
    IF x.neg = y.neg
    THEN [neg |-> x.neg, mag |-> RoundToPrecision(BigAdd(x.mag, y.mag))]
    ELSE IF x.mag = y.mag THEN [neg |-> FALSE, mag |-> BigZero]
    ELSE IF BigLess(x.mag, y.mag)
    THEN [neg |-> y.neg, mag |-> RoundToPrecision(BigSub(y.mag, x.mag))]
    ELSE [neg |-> x.neg, mag |-> RoundToPrecision(BigSub(x.mag, y.mag))]

\* the whole number of units of 2^-GridBits nearest to an exact magnitude
\* that is a whole number of units of 1
Units(a, sticky) ==
    LET r == RoundAt(a, GridBits, sticky)
    IN  r[(GridBits \div LimbBits) + 1] + Base * r[(GridBits \div LimbBits) + 2]

\* round(x * scale / n, ndigits) as a whole number of units of 10^-ndigits,
\* where tens is scale * 10^ndigits: the decimal nearest the exact value
RoundFloat(x, tens, n) ==
    LET p == BigMulSmall(x.mag, tens)
        r == Units(BigDivSmall(p, n), DivRem(p, n, 1) # 0)
    IN  IF x.neg THEN 0 - r ELSE r

\* the doubles nearest to the decimal literals of the provider's data
Dbl ==
    [lit \in {"0", "0.005", "0.02", "0.03", "0.035", "0.2", "0.45", "1.4"} |->
        [neg |-> FALSE,
         mag |-> CASE lit = "0"     -> BigZero
                   [] lit = "0.005" -> <<5243, 3932, 27525, 163, 0, 0>>  \* 0x1.47ae147ae147bp-8
                   [] lit = "0.02" -> <<20972, 15728, 11796, 655, 0, 0>>  \* 0x1.47ae147ae147bp-6
                   [] lit = "0.03" -> <<31456, 23592, 1310, 983, 0, 0>>  \* 0x1.eb851eb851eb8p-6
                   [] lit = "0.035" -> <<3936, 27525, 28835, 1146, 0, 0>>  \* 0x1.1eb851eb851ecp-5
                   [] lit = "0.2" -> <<13120, 26214, 19660, 6553, 0, 0>>  \* 0x1.999999999999ap-3
                   [] lit = "0.45" -> <<13120, 26214, 19660, 14745, 0, 0>>  \* 0x1.ccccccccccccdp-2
                   [] lit = "1.4" -> <<26112, 19660, 6553, 13107, 1, 0>>]]  \* 0x1.6666666666666p+0

Neg(x) == [neg |-> TRUE, mag |-> x.mag]

\* ((acc + rows[lo]) + ...) + rows[hi]: the additions are made one row
\* after the other in row order; splitting the range only keeps the
\* evaluation shallow
RECURSIVE AddRows(_, _, _, _, _)
AddRows(acc, rows, col, lo, hi) ==
    IF lo > hi THEN acc
    ELSE IF lo = hi THEN FloatAdd(acc, rows[lo][col])
    ELSE CHOOSE sum \in {AddRows(left, rows, col, ((lo + hi) \div 2) + 1, hi) :
                             left \in {AddRows(acc, rows, col, lo, (lo + hi) \div 2)}} : TRUE

\* Series.sum() of one float column over the first n rows
SumColumn(rows, col, n) == AddRows(Dbl["0"], rows, col, 1, n)


---------------------------------------------------------------------------
(* Pitch-type names, statcast.py:29-48                                     *)

\* pitch-type codes in the ascending order in which groupby yields them
PitchTypeOrder == <<"CH", "FF", "SL">>

PITCH_TYPE_NAMES ==
    [pt \in {"CH", "FF", "SL"} |->
        CASE pt = "FF" -> "4-Seam Fastball"
          [] pt = "SL" -> "Slider"
          [] pt = "CH" -> "Changeup"]

get_pitch_name(pitch_type) ==
    IF pitch_type \in DOMAIN PITCH_TYPE_NAMES
    THEN PITCH_TYPE_NAMES[pitch_type] ELSE pitch_type

---------------------------------------------------------------------------
(* The provider's frames                                                   *)

AllColumns == {"pitch_type", "events", "description", "delta_run_exp",
               "home_team", "away_team", "inning_topbot", "stand",
               "p_throws", "player_name"}

Row(pt, ev, desc, rv) ==
    [pitch_type |-> pt, events |-> ev, description |-> desc,
     delta_run_exp |-> rv, home_team |-> "NYY", away_team |-> "BOS",
     inning_topbot |-> "Top", stand |-> "L", p_throws |-> "R",
     player_name |-> "Cole, Gerrit"]

\* 3 pitch types of 10 events each: every group is below both thresholds
BelowRows ==
    Rep(Row("FF", NULL, "ball", Dbl["0"]), 10) \o Rep(Row("SL", NULL, "ball", Dbl["0"]), 10)
        \o Rep(Row("CH", NULL, "called_strike", Dbl["0"]), 10)

\* 120 pitches: 70 fastballs taken for strikes, 50 sliders with 10 whiffs
\* out of 20 swings and 5 hits (1 home run) in 15 at-bat-terminal events
QualRows ==
    Rep(Row("FF", NULL, "called_strike", Neg(Dbl["0.02"])), 70)
        \o Rep(Row("SL", "strikeout", "swinging_strike", Neg(Dbl["0.2"])), 10)
        \o Rep(Row("SL", "single", "hit_into_play", Dbl["0.45"]), 4)
        \o Rep(Row("SL", "home_run", "hit_into_play", Dbl["1.4"]), 1)
        \o Rep(Row("SL", NULL, "foul", Neg(Dbl["0.03"])), 5)
        \o Rep(Row("SL", NULL, "ball", Dbl["0.03"]), 30)

FrameNames == {"empty", "below", "qual"}

Frame(name) ==
    CASE name = "empty" -> [columns |-> AllColumns, rows |-> <<>>]
      [] name = "below" -> [columns |-> AllColumns, rows |-> BelowRows]
      [] name = "qual"  -> [columns |-> AllColumns, rows |-> QualRows]

\* the frames by name, computed once
Frames == [name \in FrameNames |-> Frame(name)]

\* data.empty / len(data)
IsEmpty(data) == data.rows = <<>>
\* a count of the events that have a pitch type only
FrameLen_notna(data) == Len(SelectSeq(data.rows, LAMBDA r : r.pitch_type # NULL))
FrameLen(data) == Len(data.rows)

---------------------------------------------------------------------------
(* Aggregators, statcast.py:153-248 and 325-413                            *)

hit_events == {"single", "double", "triple", "home_run"}

\* a variant of the list of at-bat-terminal events that leaves the hits out
ab_events_without_hits ==
    {"strikeout", "field_out", "grounded_into_double_play", "force_out",
     "fielders_choice", "fielders_choice_out", "double_play", "triple_play",
     "sac_fly", "field_error"}

ab_events == {"single", "double", "triple", "home_run", "strikeout",
              "field_out", "grounded_into_double_play", "force_out",
              "fielders_choice", "fielders_choice_out", "double_play",
              "triple_play", "sac_fly", "field_error"}

swing_descriptions == {"swinging_strike", "swinging_strike_blocked", "foul",
                       "foul_tip", "hit_into_play", "hit_into_play_score",
                       "hit_into_play_no_out"}

\* a variant that counts fouls as whiffs
whiff_descriptions_with_fouls ==
    {"swinging_strike", "swinging_strike_blocked", "foul", "foul_tip"}

whiff_descriptions == {"swinging_strike", "swinging_strike_blocked"}

\* data[data['pitch_type'].notna()]
NotNaPitchType(rows) == SelectSeq(rows, LAMBDA r : r.pitch_type # NULL)

\* the group of one key of data.groupby('pitch_type')
Group(rows, pt) == SelectSeq(rows, LAMBDA r : r.pitch_type = pt)

\* the keys groupby yields, ascending
GroupKeys(rows) ==
    SelectSeq(PitchTypeOrder, LAMBDA pt : Group(rows, pt) # <<>>)

\* a group exactly at the threshold is skipped too
Skipped_at_threshold(count, threshold) == count <= threshold

\* "skip pitch types with too few samples", statcast.py:169 and 339
Skipped(count, threshold) == count < threshold

\* what a float holds after 0 / 0
NaN == 0 - 1

\* num / den of two numpy integers, scaled and rounded as the builders
\* round it: a zero denominator raises nothing and gives nan
Ratio(num, den) == IF den = 0 THEN NaN ELSE RoundHalfEven(num, den)

\* no guard: the quotient is always computed
Defined_always(den) == TRUE

\* "if abs_count > 0", "if swings > 0": statcast.py:197, 202, 223 and
\* 363, 368, 395
Defined(den) == den > 0

\* the rate statistics both aggregators compute for one group
\* (statcast.py:175-230 and 342-396)
GroupRates(group, columns) ==
    LET n == Len(group)
        hasEv == "events" \in columns
        run_value == IF "delta_run_exp" \in columns
                     THEN SumColumn(group, "delta_run_exp", n) ELSE Dbl["0"]
        hits == IF hasEv THEN Len(SelectSeq(group, LAMBDA r : r.events \in hit_events)) ELSE 0
        abs_count == IF hasEv THEN Len(SelectSeq(group, LAMBDA r : r.events \in ab_events)) ELSE 0
        singles == Len(SelectSeq(group, LAMBDA r : r.events = "single"))
        doubles == Len(SelectSeq(group, LAMBDA r : r.events = "double"))
        triples == Len(SelectSeq(group, LAMBDA r : r.events = "triple"))
        homers == Len(SelectSeq(group, LAMBDA r : r.events = "home_run"))
        total_bases == singles + (2 * doubles) + (3 * triples) + (4 * homers)
        hasDesc == "description" \in columns
        swings == IF hasDesc
                  THEN Len(SelectSeq(group, LAMBDA r : r.description \in swing_descriptions)) ELSE 0
        whiffs == IF hasDesc
                  THEN Len(SelectSeq(group, LAMBDA r : r.description \in whiff_descriptions)) ELSE 0
    IN  [run_value |-> RoundFloat(run_value, 100, 1),
         run_value_per_100 |-> RoundFloat(run_value, 100 * 100, n),
         batting_avg |-> IF hasEv /\ Defined(abs_count)
                         THEN Ratio(hits * 1000, abs_count) ELSE 0,
         slg_pct |-> IF Defined(abs_count) /\ hasEv
                     THEN Ratio(total_bases * 1000, abs_count) ELSE 0,
         whiff_pct |-> IF hasDesc /\ Defined(swings)
                       THEN Ratio(whiffs * 1000, swings) ELSE 0,
         hr_rate |-> IF hasEv THEN Ratio(homers * 10000, n) ELSE 0]

\* the counts the rates of a group are computed from, statcast.py:193-194,
\* 203-207, 213-221 and 227-228 (359-360, 369-373, 379, 385-393)
GroupCounts(group, columns) ==
    LET hasEv == "events" \in columns
        hasDesc == "description" \in columns
        Has(ev) == Len(SelectSeq(group, LAMBDA r : r.events = ev))
    IN  [n |-> Len(group),
         hits |-> IF hasEv
                  THEN Len(SelectSeq(group, LAMBDA r : r.events \in hit_events)) ELSE 0,
         abs_count |-> IF hasEv
                       THEN Len(SelectSeq(group, LAMBDA r : r.events \in ab_events)) ELSE 0,
         total_bases |-> IF hasEv
                         THEN Has("single") + (2 * Has("double")) + (3 * Has("triple"))
                                 + (4 * Has("home_run"))
                         ELSE 0,
         homers |-> IF hasEv THEN Has("home_run") ELSE 0,
         swings |-> IF hasDesc
                    THEN Len(SelectSeq(group, LAMBDA r : r.description \in swing_descriptions))
                    ELSE 0,
         whiffs |-> IF hasDesc
                    THEN Len(SelectSeq(group, LAMBDA r : r.description \in whiff_descriptions))
                    ELSE 0]

\* the list as the loop over the groups appended it
Unsorted(s, field) == s

\* list.sort(key=..., reverse=True): descending, equal keys keep their order
RECURSIVE SortDescBy(_, _)
SortDescBy(s, field) ==
    IF Len(s) <= 1 THEN s
    ELSE LET front == SortDescBy(SubSeq(s, 1, Len(s) - 1), field)
             x == s[Len(s)]
             p == Cardinality({i \in 1..Len(front) : front[i][field] >= x[field]})
         IN  SubSeq(front, 1, p) \o <<x>> \o SubSeq(front, p + 1, Len(front))

\* PitchTypeStats(...), statcast.py:232-243; count is len(group)
PitchTypeStats(pt, count, total_pitches, rates) ==
        [pitch_type |-> pt,
         pitch_name |-> get_pitch_name(pt),
         usage_pct |-> RoundHalfEven(count * 1000, total_pitches),
         pitches_thrown |-> count,
         run_value |-> rates.run_value,
         run_value_per_100 |-> rates.run_value_per_100,
         batting_avg |-> rates.batting_avg,
         slg_pct |-> rates.slg_pct,
         whiff_pct |-> rates.whiff_pct,
         hr_rate |-> rates.hr_rate]

_aggregate_pitcher_pitch_types(data) ==
    IF "pitch_type" \notin data.columns THEN <<>>
    ELSE LET total_pitches == Len(data.rows)
             rows == NotNaPitchType(data.rows)
             keys == SelectSeq(GroupKeys(rows),
                        LAMBDA pt : ~Skipped(Len(Group(rows, pt)),
                                             min_pitches_for_pitch_type))
             pitch_stats == [k \in 1..Len(keys) |->
                 PitchTypeStats(keys[k], Len(Group(rows, keys[k])), total_pitches,
                                GroupRates(Group(rows, keys[k]), data.columns))]
         IN  SortDescBy(pitch_stats, "usage_pct")

\* BatterVsPitchType(...), statcast.py:398-408; count is len(group)
BatterVsPitchType(pt, count, rates) ==
        [pitch_type |-> pt,
         pitch_name |-> get_pitch_name(pt),
         pitches_seen |-> count,
         run_value |-> rates.run_value,
         run_value_per_100 |-> rates.run_value_per_100,
         batting_avg |-> rates.batting_avg,
         slg_pct |-> rates.slg_pct,
         hr_rate |-> rates.hr_rate,
         whiff_pct |-> rates.whiff_pct]

_aggregate_batter_vs_pitch_types(data) ==
    IF "pitch_type" \notin data.columns THEN <<>>
    ELSE LET rows == NotNaPitchType(data.rows)
             keys == SelectSeq(GroupKeys(rows),
                        LAMBDA pt : ~Skipped(Len(Group(rows, pt)), min_pitches_seen))
             vs_stats == [k \in 1..Len(keys) |->
                 BatterVsPitchType(keys[k], Len(Group(rows, keys[k])),
                                   GroupRates(Group(rows, keys[k]), data.columns))]
         IN  SortDescBy(vs_stats, "pitches_seen")

---------------------------------------------------------------------------
(* Profile metadata, statcast.py:119-133, 288-305, 481-498                 *)

\* values in ascending order, as Series.mode() sorts them
ValueOrder == <<"BOS", "L", "NYY", "R">>

\* rows[col].mode(): the most frequent non-null values, ascending; <<>> if none
Mode(rows, col) ==
    LET occ(v) == Len(SelectSeq(rows, LAMBDA r : r[col] = v))
        best == CHOOSE m \in {occ(ValueOrder[k]) : k \in 1..Len(ValueOrder)} :
                    \A k \in 1..Len(ValueOrder) : occ(ValueOrder[k]) <= m
    IN  SelectSeq(ValueOrder, LAMBDA v : occ(v) > 0 /\ occ(v) = best)

\* rows[col].value_counts().index: the most frequent values in the order of
\* their first appearance in the rows (value_counts sorts the counts of the
\* values, which it holds in that order, with a sort that keeps ties in place)
ValueCounts(rows, col) ==
    LET best == Mode(rows, col)
        first(v) == CHOOSE i \in 1..Len(rows) :
                        rows[i][col] = v /\ \A j \in 1..(i - 1) : rows[j][col] # v
    IN  IF Len(best) <= 1 THEN best
        ELSE IF first(best[1]) < first(best[2]) THEN best
        ELSE <<best[2], best[1]>>

\* team of a pitcher: data['home_team'].value_counts().index[0]
PitcherTeam(data) ==
    IF "home_team" \in data.columns
    THEN LET teams == ValueCounts(data.rows, "home_team")
         IN  IF teams # <<>> THEN teams[1] ELSE "UNK"
    ELSE "UNK"

\* team of a batter: home team when batting in the bottom more often
BatterTeam(data) ==
    IF {"home_team", "away_team", "inning_topbot"} \subseteq data.columns
    THEN LET bot == SelectSeq(data.rows, LAMBDA r : r.inning_topbot = "Bot")
             top == SelectSeq(data.rows, LAMBDA r : r.inning_topbot = "Top")
             mode_val == IF Len(bot) > Len(top)
                         THEN Mode(bot, "home_team")
                         ELSE Mode(top, "away_team")
         IN  IF mode_val # <<>> THEN mode_val[1] ELSE "UNK"
    ELSE "UNK"

BatterBats(data) ==
    IF "stand" \in data.columns
    THEN LET mode_val == Mode(data.rows, "stand")
         IN  IF mode_val # <<>> THEN mode_val[1] ELSE "R"
    ELSE "R"

\* PitcherProfile(...), statcast.py:135-143
PitcherProfile(oid, pitcher_id, season, data) ==
    [oid |-> oid,
     pitcher_id |-> pitcher_id,
     name |-> IF "player_name" \in data.columns THEN data.rows[1].player_name ELSE "Unknown",
     team |-> PitcherTeam(data),
     throws |-> IF "p_throws" \in data.columns THEN data.rows[1].p_throws ELSE "R",
     pitches |-> _aggregate_pitcher_pitch_types(data),
     total_pitches |-> FrameLen(data),
     season |-> season]

\* BatterProfile(...), statcast.py:307-315 and 500-508
BatterProfile(oid, batter_id, season, data, vs_pitch_stats) ==
    [oid |-> oid,
     batter_id |-> batter_id,
     name |-> "Unknown",
     team |-> BatterTeam(data),
     bats |-> BatterBats(data),
     vs_pitch_types |-> vs_pitch_stats,
     total_pitches_seen |-> FrameLen(data),
     season |-> season]

\* The provider's frames do not change, so what the builders compute from a
\* frame is computed once per frame and looked up by the frame's name.
batter_stats_of ==
    [name \in FrameNames |-> _aggregate_batter_vs_pitch_types(Frames[name])]

batter_built ==
    [name \in FrameNames \ {"empty"} |->
        BatterProfile(0, 0, current_season, Frames[name], batter_stats_of[name])]

pitcher_built ==
    [name \in FrameNames \ {"empty"} |->
        PitcherProfile(0, 0, current_season, Frames[name])]

\* statcast_pitcher(...) / statcast_batter(...) return a frame, held by name:
\* the provider answers the first call for a player with any frame and every
\* later call with that same frame; `known` is what it has answered so far
Unknown == "unknown"
Answers(known, player_id, frame) == known[player_id] \in {Unknown, frame}
Reveal(known, player_id, frame) == [known EXCEPT ![player_id] = frame]

NewPitcherProfile(oid, pitcher_id, season, data) ==
    [pitcher_built[data] EXCEPT !.oid = oid, !.pitcher_id = pitcher_id, !.season = season]

NewBatterProfile(oid, batter_id, season, data) ==
    [batter_built[data] EXCEPT !.oid = oid, !.batter_id = batter_id, !.season = season]

---------------------------------------------------------------------------
(* cachetools.TTLCache as statcast.py:23-24 constructs and uses it.  A     *)
(* cache is the sequence of its entries, least recently used first; an     *)
(* entry is [key, obj, expires, orig]: orig is history, the object as it   *)
(* was when it was stored.                                                 *)

Horizon == MaxTicks * TickStep

PitcherKey(pitcher_id, season) == <<"pitcher", pitcher_id, season>>
BatterKey(batter_id, season) == <<"batter", batter_id, season>>

KeysOf(cache) == {cache[i].key : i \in 1..Len(cache)}
EntryOf(cache, key) == cache[CHOOSE i \in 1..Len(cache) : cache[i].key = key]

\* key in cache: TTLCache.__contains__ reads the timer, no reordering
Contains(cache, key, t) ==
    \E i \in 1..Len(cache) : cache[i].key = key /\ t < cache[i].expires

\* cache[key]: TTLCache.__getitem__ reads the timer again; the entry becomes
\* the most recently used one; an expired or missing key raises KeyError
GetItem(cache, key, t) ==
    IF key \notin KeysOf(cache)
    THEN [ok |-> FALSE, obj |-> None, cache |-> cache]
    ELSE LET e == EntryOf(cache, key)
             moved == SelectSeq(cache, LAMBDA x : x.key # key) \o <<e>>
         IN  [ok |-> t < e.expires, obj |-> IF t < e.expires THEN e.obj ELSE None,
              cache |-> moved]

\* TTLCache.expire(time): drop every entry with expires <= time
Expire(cache, t) == SelectSeq(cache, LAMBDA x : t < x.expires)

\* the entries Cache.__setitem__ pops for capacity before it adds a new key
PoppedFor(cache, key) ==
    IF key \in KeysOf(cache) \/ Len(cache) < MaxSize THEN 0
    ELSE Len(cache) + 1 - MaxSize

\* cache[key] = obj: expire, make room (least recently used first), store the
\* entry as the most recently used one with expires = time + ttl
SetItem(cache, key, obj, t, ttl) ==
    LET live == Expire(cache, t)
        n == PoppedFor(live, key)
        kept == SelectSeq(SubSeq(live, n + 1, Len(live)), LAMBDA x : x.key # key)
    IN  [cache |-> kept \o <<[key |-> key, obj |-> obj, expires |-> t + ttl, orig |-> obj]>>,
         popped |-> {live[i].key : i \in 1..n}]

\* the in-memory caches of statcast.py:23-24
TTLCache(ttl) == <<>>

---------------------------------------------------------------------------
(* Single-player services, statcast.py:88-150 and 251-322.  d is the time  *)
(* that passes between the membership test and the read of the key; prov   *)
(* is what the provider does if it is called: "ok" or "fail".              *)

SeasonOr(season) == IF season = NoSeason THEN current_season ELSE season

\* what a service call returns to its caller
Ret(outcome, error, value, cache, t, hit, called) ==
    [outcome |-> outcome, error |-> error, value |-> value, cache |-> cache,
     t |-> t, hit |-> hit, called |-> called, popped |-> {}]

\* if data is None or data.empty: return None   (statcast.py:112-114, 274-276)
\* a variant that treats missing data as an error
NoData_raises(cache, t) ==
    Ret("raised", "NoDataError", None, cache, t, FALSE, TRUE)

NoData(cache, t) ==
    Ret("none", "", None, cache, t, FALSE, TRUE)

\* a variant of the except clauses that swallows the provider's error
except_returns_none(cache, t) ==
    Ret("none", "", None, cache, t, FALSE, TRUE)

\* a variant of the except clauses that drops the cache when the provider fails
except_invalidates(cache, t) ==
    Ret("raised", "ProviderError", None, <<>>, t, FALSE, TRUE)

\* except Exception as e: logger.error(...); raise   (statcast.py:148-150)
get_pitcher_profile_except(cache, t) ==
    Ret("raised", "ProviderError", None, cache, t, FALSE, TRUE)

\* return cache[cache_key]: g is what the read gave at time t; a KeyError
\* raised there is outside the try block (statcast.py:98-99, 261-262)
ReturnCached(g, t) ==
    IF g.ok
    THEN Ret("profile", "", g.obj, g.cache, t, TRUE, FALSE)
    ELSE Ret("raised", "KeyError", None, g.cache, t, FALSE, FALSE)

\* a variant that returns the profile it built without storing it
ReturnUnstored(cache, cache_key, profile, t, ttl) ==
    Ret("profile", "", profile, cache, t, FALSE, TRUE)

\* cache[cache_key] = profile; return profile (statcast.py:145-146, 317-318)
StoreAndReturn(cache, cache_key, profile, t, ttl) ==
    LET st == SetItem(cache, cache_key, profile, t, ttl)
    IN  [Ret("profile", "", profile, st.cache, t, FALSE, TRUE) EXCEPT !.popped = st.popped]

get_pitcher_profile(cache, oid, pitcher_id, season0, t, d, prov, data) ==
    LET season == SeasonOr(season0)
        cache_key == PitcherKey(pitcher_id, season)
    IN  IF Contains(cache, cache_key, t)
        THEN ReturnCached(GetItem(cache, cache_key, t + d), t + d)
        ELSE IF prov = "fail" THEN get_pitcher_profile_except(cache, t)
        ELSE IF IsEmpty(Frames[data]) THEN NoData(cache, t)
        ELSE StoreAndReturn(cache, cache_key,
                            NewPitcherProfile(oid, pitcher_id, season, data),
                            t, cache_ttl_pitchers)

\* except Exception as e: logger.error(...); raise   (statcast.py:320-322)
get_batter_profile_except(cache, t) ==
    Ret("raised", "ProviderError", None, cache, t, FALSE, TRUE)

get_batter_profile(cache, oid, batter_id, season0, t, d, prov, data) ==
    LET season == SeasonOr(season0)
        cache_key == BatterKey(batter_id, season)
    IN  IF Contains(cache, cache_key, t)
        THEN ReturnCached(GetItem(cache, cache_key, t + d), t + d)
        ELSE IF prov = "fail" THEN get_batter_profile_except(cache, t)
        ELSE IF IsEmpty(Frames[data]) THEN NoData(cache, t)
        ELSE StoreAndReturn(cache, cache_key,
                            NewBatterProfile(oid, batter_id, season, data),
                            t, cache_ttl_batters)

---------------------------------------------------------------------------
(* get_season_statcast_data, statcast.py:51-85.  frame is what statcast()  *)
(* returns on this call, prov whether it raises.                           *)

get_season_statcast_data(cache, season, use_cache, prov, frame) ==
    IF use_cache /\ season \in DOMAIN cache
    THEN [outcome |-> "data", value |-> cache[season], cache |-> cache, called |-> FALSE]
    ELSE IF prov = "fail"
    THEN [outcome |-> "raised", value |-> "empty", cache |-> cache, called |-> TRUE]
    ELSE IF ~IsEmpty(Frames[frame])
    THEN [outcome |-> "data", value |-> frame,
          cache |-> [s \in DOMAIN cache \cup {season} |->
                        IF s = season THEN frame ELSE cache[s]],
          called |-> TRUE]
    ELSE [outcome |-> "data", value |-> "empty", cache |-> cache, called |-> TRUE]

---------------------------------------------------------------------------
(* get_batters_batch_fast, statcast.py:434-526                             *)

\* what a worker's future holds when fetch_batter_sync raised
Raised == [oid |-> -1]

\* the cache check, statcast.py:449-455: the time d passes between the
\* membership test and the read of the key in iteration j of the loop
RECURSIVE CacheCheck(_, _, _, _, _, _)
CacheCheck(cache, ids, season, t, j, d) ==
    IF ids = <<>>
    THEN [profiles |-> <<>>, ids_to_fetch |-> <<>>, cache |-> cache, t |-> t,
          raised |-> FALSE]
    ELSE LET cache_key == BatterKey(Head(ids), season)
             dd == IF j = 1 THEN d ELSE 0
         IN  IF Contains(cache, cache_key, t)
             THEN LET g == GetItem(cache, cache_key, t + dd)
                  IN  IF ~g.ok
                      THEN [profiles |-> <<>>, ids_to_fetch |-> <<>>, cache |-> g.cache,
                            t |-> t + dd, raised |-> TRUE]
                      ELSE LET rest == CacheCheck(g.cache, Tail(ids), season, t + dd, j - 1, d)
                           IN  [rest EXCEPT !.profiles = <<g.obj>> \o @]
             ELSE LET rest == CacheCheck(cache, Tail(ids), season, t, j - 1, d)
                  IN  [rest EXCEPT !.ids_to_fetch = <<Head(ids)>> \o @]

\* a variant of the worker's except clause that re-raises
fetch_batter_sync_reraises == Raised

\* except Exception as e: logger.error(...); return None  (statcast.py:509-511)
fetch_batter_sync_except == None

\* the worker, statcast.py:463-511
fetch_batter_sync(oid, batter_id, season, prov, data) ==
    IF prov = "fail" THEN fetch_batter_sync_except
    ELSE IF IsEmpty(Frames[data]) THEN None
    ELSE LET vs_pitch_stats == batter_stats_of[data]
         IN  IF vs_pitch_stats = <<>> THEN None
             ELSE NewBatterProfile(oid, batter_id, season, data)

\* `if profile:` of statcast.py:521
Truthy(profile) == profile # None

\* _batter_cache[cache_key] = profile of statcast.py:523
collect_store(cache, cache_key, profile, t) ==
    SetItem(cache, cache_key, profile, t, cache_ttl_batters)

\* "Cache and collect results", statcast.py:519-524
RECURSIVE CacheAndCollect(_, _, _, _, _)
CacheAndCollect(cache, ids, results, season, t) ==
    IF ids = <<>>
    THEN [cache |-> cache, profiles |-> <<>>, popped |-> {}, stored |-> {}]
    ELSE IF Truthy(Head(results))
    THEN LET cache_key == BatterKey(Head(ids), season)
             st == collect_store(cache, cache_key, Head(results), t)
             rest == CacheAndCollect(st.cache, Tail(ids), Tail(results), season, t)
         IN  [cache |-> rest.cache, profiles |-> <<Head(results)>> \o rest.profiles,
              popped |-> st.popped \cup rest.popped,
              stored |-> {cache_key} \cup rest.stored]
    ELSE CacheAndCollect(cache, Tail(ids), Tail(results), season, t)

---------------------------------------------------------------------------
(* The MLB API player lookup the routers call, mlb_api.py:254-324, and the *)
(* attribute assignments of the routers                                    *)

PlayerInfo(player_id) ==
    [name |-> "Aaron Judge", team |-> "NYY", bats |-> "R"]

\* get_batter, batters.py:41-44, and get_batters_batch, batters.py:129-135
UpdateBatter(profile, S) ==
    IF profile.batter_id \in S
    THEN LET info == PlayerInfo(profile.batter_id)
         IN  [profile EXCEPT !.name = info.name, !.team = info.team, !.bats = info.bats]
    ELSE profile

\* get_pitcher, pitchers.py:40-44
UpdatePitcher(profile, S) ==
    IF profile.name = "Unknown" /\ profile.pitcher_id \in S
    THEN LET info == PlayerInfo(profile.pitcher_id)
         IN  [profile EXCEPT !.name = info.name, !.team = info.team]
    ELSE profile

\* an assignment to the objects `oids` is seen through every reference
AssignInPitcherCache(cache, oids, S) ==
    [i \in 1..Len(cache) |->
        IF cache[i].obj.oid \in oids
        THEN [cache[i] EXCEPT !.obj = UpdatePitcher(cache[i].obj, S)] ELSE cache[i]]

AssignInCache(cache, oids, S) ==
    [i \in 1..Len(cache) |->
        IF cache[i].obj.oid \in oids
        THEN [cache[i] EXCEPT !.obj = UpdateBatter(cache[i].obj, S)] ELSE cache[i]]

AssignInList(list, oids, S) ==
    [i \in 1..Len(list) |->
        IF list[i].oid \in oids THEN UpdateBatter(list[i], S) ELSE list[i]]

Oids(list) == {list[i].oid : i \in 1..Len(list)}
IdsOf(list) == [i \in 1..Len(list) |-> list[i].batter_id]
Range(s) == {s[i] : i \in 1..Len(s)}

---------------------------------------------------------------------------
(* State                                                                   *)

AllBatterKeys == {BatterKey(b, s) : b \in BatterIds, s \in Seasons}

IdleSlot ==
    [pc |-> "idle", ids |-> <<>>, season |-> current_season, profiles |-> <<>>,
     ids_to_fetch |-> <<>>, tasks |-> <<>>, result |-> <<>>]

Task(st, result, failed) == [st |-> st, result |-> result, failed |-> failed]

NoCall ==
    [op |-> "none", id |-> 0, season |-> current_season, time |-> 0,
     outcome |-> "none", error |-> "", value |-> None, hit |-> FALSE,
     called |-> FALSE, prov |-> "ok", req |-> 0, at |-> 0]

InitProgram ==
    /\ now = 0
    /\ provider = [batter |-> [b \in BatterIds |-> Unknown],
                   pitcher |-> [p \in PitcherIds |-> Unknown]]
    /\ _pitcher_cache = TTLCache(cache_ttl_pitchers)
    /\ _batter_cache = TTLCache(cache_ttl_batters)
    /\ _season_data_cache = [s \in {} |-> "empty"]
    /\ batch = [r \in Reqs |-> IdleSlot]
    /\ last = NoCall
    /\ calls = 0
    /\ hist = [batch_stored |-> [k \in AllBatterKeys |-> -1],
               evicted |-> {},
               season_stored |-> [s \in Seasons |-> -1]]

\* nothing built yet
NoOut == [pitcher |-> None, batter |-> None]

Init ==
    /\ InitProgram
    /\ agg = [data |-> <<>>, first |-> NoOut, out |-> NoOut]

\* the season argument of a request: absent (the current season) or 2024
SeasonArgs == {NoSeason, 2024}
Elapse == {0, TickStep}
ProvOutcomes == {"ok", "fail"}

\* Object identities.  A profile a worker has built is referenced by its
\* future alone (Unshared) until the call collects it; the objects that are
\* referenced from a cache or from a call in flight have distinct oids, and a
\* new object takes the smallest oids no reference holds.
Unshared == -2

UsedOids ==
    {_pitcher_cache[i].obj.oid : i \in 1..Len(_pitcher_cache)}
        \cup {_batter_cache[i].obj.oid : i \in 1..Len(_batter_cache)}
        \cup UNION {Oids(batch[r].profiles) : r \in Reqs}

NewOid(k) ==
    CHOOSE o \in 1..(Cardinality(UsedOids) + k) :
        /\ o \notin UsedOids
        /\ Cardinality({x \in 1..o : x \notin UsedOids}) = k

\* a variant of gather that hands back its results last to first
Reverse(results) == [i \in 1..Len(results) |-> results[Len(results) + 1 - i]]

\* the results of gather: the k-th profile among them is the k-th new object
Identify(results) ==
    [i \in 1..Len(results) |->
        IF results[i].oid = Unshared
        THEN [results[i] EXCEPT !.oid =
                 NewOid(Cardinality({x \in 1..i : results[x].oid = Unshared}))]
        ELSE results[i]]

\* the references to profile objects that calls in flight hold
AssignInBatches(b, oids, S) ==
    [r \in Reqs |-> [b[r] EXCEPT !.profiles = AssignInList(@, oids, S)]]

EvictedAfter(popped, cache) == (hist.evicted \cup popped) \ KeysOf(cache)

---------------------------------------------------------------------------
(* Actions                                                                 *)

\* Time can pass between test and read only where there is a read, and the
\* provider can fail or answer only where it is called: the other choices of
\* d, prov and frame repeat a step.
ProviderArgs(known, player_id, prov, frame) ==
    IF prov = "ok" THEN Answers(known, player_id, frame) ELSE frame = "empty"

PitcherArgs(pitcher_id, season0, d, prov, frame) ==
    IF Contains(_pitcher_cache, PitcherKey(pitcher_id, SeasonOr(season0)), now)
    THEN prov = "ok" /\ frame = "empty"
    ELSE d = 0 /\ ProviderArgs(provider.pitcher, pitcher_id, prov, frame)

BatterArgs(batter_id, season0, d, prov, frame) ==
    IF Contains(_batter_cache, BatterKey(batter_id, SeasonOr(season0)), now)
    THEN prov = "ok" /\ frame = "empty"
    ELSE d = 0 /\ ProviderArgs(provider.batter, batter_id, prov, frame)

BatchArgs(ids, season0, j, d) ==
    \/ j = 0 /\ d = 0
    \/ /\ j \in 1..Len(ids)
       /\ d = TickStep
       /\ Contains(_batter_cache, BatterKey(ids[j], SeasonOr(season0)), now)

\* time passes
Tick ==
    /\ now + TickStep <= Horizon
    /\ now' = now + TickStep
    /\ UNCHANGED <<provider, _pitcher_cache, _batter_cache, _season_data_cache,
                   batch, last, calls, hist, agg>>

\* GET /pitchers/{pitcher_id}, pitchers.py:14-46
GetPitcher(pitcher_id, season0, d, prov, frame, hasInfo) ==
    /\ calls < MaxCalls
    /\ now + d <= Horizon
    /\ PitcherArgs(pitcher_id, season0, d, prov, frame)
    /\ \E R \in {get_pitcher_profile(_pitcher_cache, NewOid(1), pitcher_id, season0, now, d,
                                     prov, frame)} :
       LET S == IF hasInfo THEN {pitcher_id} ELSE {}
           oids == IF R.outcome = "profile" THEN {R.value.oid} ELSE {}
       IN  /\ _pitcher_cache' = AssignInPitcherCache(R.cache, oids, S)
           /\ now' = R.t
           /\ last' = [op |-> "get_pitcher", id |-> pitcher_id, season |-> SeasonOr(season0),
                       time |-> R.t, outcome |-> R.outcome, error |-> R.error,
                       value |-> IF R.outcome = "profile" THEN UpdatePitcher(R.value, S) ELSE None,
                       hit |-> R.hit, called |-> R.called, prov |-> prov, req |-> 0,
                       at |-> now]
    /\ calls' = calls + 1
    /\ provider' = IF ~Contains(_pitcher_cache, PitcherKey(pitcher_id, SeasonOr(season0)), now)
                       /\ prov = "ok"
                    THEN [provider EXCEPT !.pitcher = Reveal(@, pitcher_id, frame)]
                    ELSE provider
    /\ UNCHANGED <<_batter_cache, _season_data_cache, batch, hist, agg>>

\* GET /batters/{batter_id}, batters.py:14-46
GetBatter(batter_id, season0, d, prov, frame, hasInfo) ==
    /\ calls < MaxCalls
    /\ now + d <= Horizon
    /\ BatterArgs(batter_id, season0, d, prov, frame)
    /\ \E R \in {get_batter_profile(_batter_cache, NewOid(1), batter_id, season0, now, d,
                                    prov, frame)} :
       LET S == IF hasInfo THEN {batter_id} ELSE {}
           oids == IF R.outcome = "profile" THEN {R.value.oid} ELSE {}
       IN  /\ _batter_cache' = AssignInCache(R.cache, oids, S)
           /\ batch' = AssignInBatches(batch, oids, S)
           /\ now' = R.t
           /\ last' = [op |-> "get_batter", id |-> batter_id, season |-> SeasonOr(season0),
                       time |-> R.t, outcome |-> R.outcome, error |-> R.error,
                       value |-> IF R.outcome = "profile" THEN UpdateBatter(R.value, S) ELSE None,
                       hit |-> R.hit, called |-> R.called, prov |-> prov, req |-> 0,
                       at |-> now]
           /\ hist' = [hist EXCEPT !.evicted = EvictedAfter(R.popped, R.cache)]
    /\ provider' = IF ~Contains(_batter_cache, BatterKey(batter_id, SeasonOr(season0)), now)
                       /\ prov = "ok"
                    THEN [provider EXCEPT !.batter = Reveal(@, batter_id, frame)]
                    ELSE provider
    /\ calls' = calls + 1
    /\ UNCHANGED <<_pitcher_cache, _season_data_cache, agg>>

\* get_season_statcast_data(season, use_cache), statcast.py:51-85
GetSeasonStatcastData(season, use_cache, prov, frame) ==
    /\ calls < MaxCalls
    /\ \E R \in {get_season_statcast_data(_season_data_cache, season, use_cache, prov, frame)} :
           /\ _season_data_cache' = R.cache
           /\ last' = [op |-> "get_season_statcast_data", id |-> 0, season |-> season,
                       time |-> now, outcome |-> R.outcome, error |-> "",
                       value |-> None, hit |-> ~R.called, called |-> R.called,
                       prov |-> prov, req |-> 0, at |-> now]
           /\ hist' = IF R.called /\ R.outcome = "data" /\ season \in DOMAIN R.cache
                         /\ R.value # "empty"
                      THEN [hist EXCEPT !.season_stored[season] = now]
                      ELSE hist
    /\ calls' = calls + 1
    /\ UNCHANGED <<now, provider, _pitcher_cache, _batter_cache, batch, agg>>

---------------------------------------------------------------------------
(* POST /batters/batch, batters.py:106-137, around get_batters_batch_fast  *)

BatterIdLists == UNION {[1..n -> BatterIds] : n \in 1..MaxBatch}

Running(tasks) == {i \in 1..Len(tasks) : tasks[i].st = "running"}
Pending(tasks) == {i \in 1..Len(tasks) : tasks[i].st = "pending"}

\* ThreadPoolExecutor(max_workers=3), statcast.py:515-516: a submitted call
\* runs as soon as one of the max_workers threads is free, in submission order
Schedule(tasks) ==
    LET free == max_workers - Cardinality(Running(tasks))
        next == {i \in Pending(tasks) :
                    Cardinality({k \in Pending(tasks) : k < i}) < free}
    IN  [i \in 1..Len(tasks) |->
            IF i \in next THEN [tasks[i] EXCEPT !.st = "running"] ELSE tasks[i]]

\* the call returns `profiles` to the router, which assigns name, team and
\* bats to the profiles of the players S the MLB API knows, and responds
ReturnBatch(r, profiles, cache, popped, stored, S) ==
    LET oids == Oids(profiles)
    IN  /\ _batter_cache' = AssignInCache(cache, oids, S)
        /\ batch' = [AssignInBatches(batch, oids, S) EXCEPT
                        ![r].pc = "done",
                        ![r].profiles = <<>>,
                        ![r].result = AssignInList(profiles, oids, S)]
        /\ last' = [op |-> "get_batters_batch", id |-> 0, season |-> batch[r].season,
                    time |-> now', outcome |-> "batch", error |-> "", value |-> None,
                    hit |-> FALSE, called |-> FALSE, prov |-> "ok", req |-> r,
                    at |-> now]
        /\ hist' = [hist EXCEPT
                        !.batch_stored = [k \in AllBatterKeys |->
                                            IF k \in stored THEN now' ELSE @[k]],
                        !.evicted = EvictedAfter(popped, cache)]

\* the call raises: the router responds with a server error
RaiseBatch(r, cache, error) ==
    /\ _batter_cache' = cache
    /\ batch' = [batch EXCEPT ![r].pc = "raised"]
    /\ last' = [op |-> "get_batters_batch", id |-> 0, season |-> batch[r].season,
                time |-> now', outcome |-> "raised", error |-> error, value |-> None,
                hit |-> FALSE, called |-> FALSE, prov |-> "ok", req |-> r,
                    at |-> now]
    /\ hist' = hist

\* a variant that joins a fetch in flight instead of starting another one:
\* ids another call is fetching for the same season are not submitted
Submitted_single_flight(ids_to_fetch, b, season) ==
    SelectSeq(ids_to_fetch,
              LAMBDA id : ~\E r \in Reqs :
                  /\ b[r].pc = "fetching" /\ b[r].season = season
                  /\ \E i \in 1..Len(b[r].ids_to_fetch) : b[r].ids_to_fetch[i] = id)

\* the ids handed to the pool, statcast.py:516: one future for every id that
\* missed the cache, whatever the calls in flight b are fetching
Submitted(ids_to_fetch, b, season) == ids_to_fetch

\* the request arrives: statcast.py:445-458, then the pool is handed the
\* ids that missed the cache (statcast.py:514-517)
BatchStart(r, ids, season0, j, d, hasInfo) ==
    /\ calls < MaxCalls
    /\ now + d <= Horizon
    /\ batch[r].pc # "fetching"
    /\ \A r2 \in Reqs : r2 < r => batch[r2].pc = "fetching"
    /\ BatchArgs(ids, season0, j, d)
    /\ \E C \in {CacheCheck(_batter_cache, ids, SeasonOr(season0), now, j, d)} :
       LET season == SeasonOr(season0)
           S == IF hasInfo THEN Range(ids) ELSE {}
           fresh == [IdleSlot EXCEPT !.ids = ids, !.season = season]
       IN  /\ now' = C.t
           /\ IF C.raised
              THEN /\ ~hasInfo
                   /\ _batter_cache' = C.cache
                   /\ batch' = [batch EXCEPT ![r] = [fresh EXCEPT !.pc = "raised"]]
                   /\ last' = [op |-> "get_batters_batch", id |-> 0, season |-> season,
                               time |-> C.t, outcome |-> "raised", error |-> "KeyError",
                               value |-> None, hit |-> FALSE, called |-> FALSE,
                               prov |-> "ok", req |-> r, at |-> now]
                   /\ hist' = hist
              ELSE IF C.ids_to_fetch = <<>>
              THEN /\ _batter_cache' = AssignInCache(C.cache, Oids(C.profiles), S)
                   /\ batch' = [AssignInBatches(batch, Oids(C.profiles), S) EXCEPT
                                   ![r] = [fresh EXCEPT
                                       !.pc = "done",
                                       !.result = AssignInList(C.profiles, Oids(C.profiles), S)]]
                   /\ last' = [op |-> "get_batters_batch", id |-> 0, season |-> season,
                               time |-> C.t, outcome |-> "batch", error |-> "",
                               value |-> None, hit |-> TRUE, called |-> FALSE,
                               prov |-> "ok", req |-> r, at |-> now]
                   /\ hist' = hist
              ELSE /\ _batter_cache' = C.cache
                   /\ ~hasInfo
                   /\ \E futures \in {Submitted(C.ids_to_fetch, batch, season)} :
                      batch' = [batch EXCEPT ![r] = [fresh EXCEPT
                                   !.pc = "fetching",
                                   !.profiles = C.profiles,
                                   !.ids_to_fetch = futures,
                                   !.tasks = Schedule([i \in 1..Len(futures) |->
                                                Task("pending", None, FALSE)])]]
                   /\ UNCHANGED <<last, hist>>
    /\ calls' = calls + 1
    /\ UNCHANGED <<provider, _pitcher_cache, _season_data_cache, agg>>

\* a pool thread runs fetch_batter_sync for the i-th id to fetch and takes
\* the next submitted call
WorkerFinish(r, i, prov, frame) ==
    /\ batch[r].pc = "fetching"
    /\ i \in Running(batch[r].tasks)
    /\ ProviderArgs(provider.batter, batch[r].ids_to_fetch[i], prov, frame)
    /\ provider' = IF prov = "ok"
                    THEN [provider EXCEPT !.batter = Reveal(@, batch[r].ids_to_fetch[i], frame)]
                    ELSE provider
    /\ \E res \in {fetch_batter_sync(Unshared, batch[r].ids_to_fetch[i], batch[r].season,
                                     prov, frame)} :
       LET done == [batch[r].tasks EXCEPT ![i] = Task("done", res, prov = "fail")]
       IN  batch' = [batch EXCEPT ![r].tasks = Schedule(done)]
    /\ UNCHANGED <<now, _pitcher_cache, _batter_cache, _season_data_cache,
                   last, calls, hist, agg>>

\* asyncio.gather returns (statcast.py:517); statcast.py:519-526, then the
\* router's part
BatchCollect(r, hasInfo) ==
    /\ batch[r].pc = "fetching"
    /\ \A i \in 1..Len(batch[r].tasks) : batch[r].tasks[i].st = "done"
    /\ \E results \in {Identify([i \in 1..Len(batch[r].tasks) |-> batch[r].tasks[i].result])} :
       \E cc \in {CacheAndCollect(_batter_cache, batch[r].ids_to_fetch, results,
                                  batch[r].season, now)} :
       LET profiles == batch[r].profiles \o cc.profiles
           S == IF hasInfo THEN Range(IdsOf(profiles)) ELSE {}
       IN  /\ now' = now
           /\ IF \E i \in 1..Len(results) : results[i] = Raised
              THEN ~hasInfo /\ RaiseBatch(r, _batter_cache, "ProviderError")
              ELSE /\ (hasInfo => profiles # <<>>)
                   /\ ReturnBatch(r, profiles, cc.cache, cc.popped, cc.stored, S)
    /\ UNCHANGED <<provider, _pitcher_cache, _season_data_cache, calls, agg>>

---------------------------------------------------------------------------
(* Specification                                                           *)

Next ==
    \/ Tick
    \/ \E p \in PitcherIds, s \in SeasonArgs, d \in Elapse, prov \in ProvOutcomes,
          frame \in FrameNames, hasInfo \in BOOLEAN :
          GetPitcher(p, s, d, prov, frame, hasInfo)
    \/ \E b \in BatterIds, s \in SeasonArgs, d \in Elapse, prov \in ProvOutcomes,
          frame \in FrameNames, hasInfo \in BOOLEAN :
          GetBatter(b, s, d, prov, frame, hasInfo)
    \/ \E s \in Seasons, use_cache \in BOOLEAN, prov \in ProvOutcomes,
          frame \in {"empty", "qual"} : GetSeasonStatcastData(s, use_cache, prov, frame)
    \/ \E r \in {1}, ids \in BatterIdLists, s \in SeasonArgs, j \in 0..MaxBatch,
          d \in Elapse, hasInfo \in BOOLEAN : BatchStart(r, ids, s, j, d, hasInfo)
    \/ \E r \in Reqs, i \in 1..MaxBatch, prov \in ProvOutcomes, frame \in FrameNames :
          WorkerFinish(r, i, prov, frame)
    \/ \E r \in Reqs, hasInfo \in BOOLEAN : BatchCollect(r, hasInfo)

Spec == Init /\ [][Next]_vars

\* Batch requests alone, a second one arriving while the first is awaiting
\* its workers (the await of statcast.py:517 yields to the event loop)
NextOverlap ==
    \/ \E r \in Reqs, ids \in BatterIdLists, s \in SeasonArgs, j \in 0..MaxBatch,
          d \in Elapse, hasInfo \in BOOLEAN : BatchStart(r, ids, s, j, d, hasInfo)
    \/ \E r \in Reqs, i \in 1..MaxBatch, prov \in ProvOutcomes, frame \in FrameNames :
          WorkerFinish(r, i, prov, frame)
    \/ \E r \in Reqs, hasInfo \in BOOLEAN : BatchCollect(r, hasInfo)

SpecOverlap == Init /\ [][NextOverlap]_vars

---------------------------------------------------------------------------
(* The builders as functions of the event collection.  A collection is     *)
(* held as a sequence of blocks, a block being n rows that are equal.      *)

\* blocks per collection
MaxBlocks == 3

\* the rows of the three kinds of event the collections are made of
TakeRow(pt) == Row(pt, NULL, "ball", Dbl["0"])
WhiffRow(pt) == Row(pt, "strikeout", "swinging_strike", Dbl["0.005"])
HitRow(pt) ==
    [Row(pt, "single", "hit_into_play", Dbl["0.035"]) EXCEPT
        !.home_team = "BOS", !.away_team = "NYY", !.inning_topbot = "Bot",
        !.stand = "R", !.p_throws = "L"]

Block(row, n) == [row |-> row, n |-> n]

\* counts at and just below the two thresholds, a third large group, single
\* events, and events without a pitch type
Blocks ==
    {Block(TakeRow("FF"), 50), Block(TakeRow("FF"), 49),
     Block(WhiffRow("SL"), 50), Block(WhiffRow("SL"), 20),
     Block(HitRow("CH"), 75), Block(TakeRow("CH"), 19),
     Block(TakeRow(NULL), 1), Block(HitRow("FF"), 1), Block(WhiffRow("FF"), 2)}

Collections ==
    UNION {[1..k -> Blocks] : k \in 1..MaxBlocks}

\* the frame of a collection
RECURSIVE RowsOf(_, _)
RowsOf(blocks, k) ==
    IF k = 0 THEN <<>> ELSE RowsOf(blocks, k - 1) \o Rep(blocks[k].row, blocks[k].n)

DataOf(blocks) == [columns |-> AllColumns, rows |-> RowsOf(blocks, Len(blocks))]

\* statcast.py:116-143 and 278-315 for a non-empty frame
Profiles(data) ==
    [pitcher |-> PitcherProfile(1, 1, current_season, data),
     batter |-> BatterProfile(1, 1, current_season, data,
                              _aggregate_batter_vs_pitch_types(data))]

InitAgg ==
    /\ InitProgram
    /\ \E blocks \in Collections :
          agg = [data |-> blocks, first |-> NoOut, out |-> NoOut]

\* the builders are applied to the collection as it is now
Build ==
    /\ agg.data # <<>>
    /\ agg.out = NoOut
    /\ \E built \in {Profiles(DataOf(agg.data))} :
          agg' = [agg EXCEPT !.out = built,
                             !.first = IF agg.first = NoOut THEN built ELSE @]
    /\ UNCHANGED <<now, provider, _pitcher_cache, _batter_cache,
                   _season_data_cache, batch, last, calls, hist>>

\* the same events in another order: two neighbouring blocks change places
Permute(i) ==
    /\ agg.out # NoOut
    /\ i < Len(agg.data)
    /\ agg.data[i] # agg.data[i + 1]
    /\ agg' = [agg EXCEPT !.data = [@ EXCEPT ![i] = agg.data[i + 1],
                                             ![i + 1] = agg.data[i]],
                          !.out = NoOut]
    /\ UNCHANGED <<now, provider, _pitcher_cache, _batter_cache,
                   _season_data_cache, batch, last, calls, hist>>

NextAgg ==
    \/ Build
    \/ \E i \in 1..(MaxBlocks - 1) : Permute(i)

AggSpec == InitAgg /\ [][NextAgg]_vars

---------------------------------------------------------------------------
(* Properties                                                              *)

SinglePlayerOps == {"get_pitcher", "get_batter"}

\* the frame the provider holds for the player of the last single-player call
LastFrame ==
    IF last.op = "get_pitcher" THEN provider.pitcher[last.id]
    ELSE provider.batter[last.id]

\* the batch calls that went through their workers and ended
Ended == {r \in Reqs : batch[r].pc \in {"done", "raised"} /\ batch[r].tasks # <<>>}
Done == {r \in Reqs : batch[r].pc = "done"}

\* the indices of the workers of call r that built a profile
Built(r) == {i \in 1..Len(batch[r].tasks) : batch[r].tasks[i].result # None}
Failed(r) == {i \in 1..Len(batch[r].tasks) : batch[r].tasks[i].failed}

\* the ids a call fetched for which the provider answered with qualifying
\* data, in the order of the request
QualifyingFetched(r) ==
    SelectSeq([i \in 1..Len(batch[r].tasks) |->
                  IF i \in Failed(r) \/ provider.batter[batch[r].ids_to_fetch[i]] # "qual"
                  THEN 0 ELSE batch[r].ids_to_fetch[i]],
              LAMBDA id : id # 0)

\* the last n elements of a sequence
Suffix(s, n) == SubSeq(s, Len(s) - n + 1, Len(s))

\* C1: a batch call whose workers ran never raises, whichever of them the
\* provider failed, and its result ends with the profiles of exactly the
\* fetched ids whose provider call succeeded with qualifying data, in request
\* order, after the profiles that were cache hits: a worker's failure removes
\* no sibling's profile.
C1_BatchPartialFailure ==
    \A r \in Ended :
        /\ batch[r].pc = "done"
        /\ Len(batch[r].result) =
              Len(batch[r].ids) - Len(batch[r].ids_to_fetch) + Len(QualifyingFetched(r))
        /\ Suffix(IdsOf(batch[r].result), Len(QualifyingFetched(r))) = QualifyingFetched(r)

\* a call for two ids ended in which exactly one worker failed and the other
\* id's profile is the result
C1_Witness ==
    \E r \in Done :
        /\ Len(batch[r].ids_to_fetch) = 2
        /\ Cardinality(Failed(r)) = 1
        /\ Len(batch[r].result) = 1
        /\ \E i \in 1..2 : /\ i \notin Failed(r)
                           /\ batch[r].result[1].batter_id = batch[r].ids_to_fetch[i]

\* C2: a lookup in the season raw-data cache made later than TTL after the
\* entry was stored calls the provider again, and a hit in a profile cache
\* is a hit on an entry whose TTL has not elapsed.
C2_CacheTTL ==
    /\ (/\ last.op = "get_season_statcast_data"
        /\ hist.season_stored[last.season] >= 0
        /\ last.at > hist.season_stored[last.season] + SeasonTTL)
       => last.called
    /\ (last.op = "get_pitcher" /\ last.hit)
       => Contains(_pitcher_cache, PitcherKey(last.id, last.season), last.time)
    /\ (last.op = "get_batter" /\ last.hit)
       => Contains(_batter_cache, BatterKey(last.id, last.season), last.time)

\* C3: a get_batter_profile lookup that starts within the TTL of a profile
\* a batch call stored under the key returns the cached profile and does not
\* call the provider.
C3_BatchStoreThenHit ==
    (/\ last.op = "get_batter"
     /\ hist.batch_stored[BatterKey(last.id, last.season)] >= 0
     /\ last.at >= hist.batch_stored[BatterKey(last.id, last.season)]
     /\ last.at < hist.batch_stored[BatterKey(last.id, last.season)] + cache_ttl_batters)
    => (last.outcome = "profile" /\ last.hit /\ ~last.called)

\* C4: the object a cache entry holds is equal to the object that was stored
\* by the profile build (name, team, handedness, aggregate list, total) for
\* as long as the entry is in the cache.
C4_NoInPlaceMutation ==
    /\ \A i \in 1..Len(_pitcher_cache) : _pitcher_cache[i].obj = _pitcher_cache[i].orig
    /\ \A i \in 1..Len(_batter_cache) : _batter_cache[i].obj = _batter_cache[i].orig

\* C5: when no provider call failed, a batch call returns profiles for the
\* players a call on empty caches returns them for (those whose data has a
\* qualifying pitch type), whatever the cache held when it started.
C5_CacheAdvisory ==
    \A r \in Done :
        Failed(r) = {} =>
            Range(IdsOf(batch[r].result)) =
                {id \in Range(batch[r].ids) : provider.batter[id] = "qual"}

\* C6: no handler call raises KeyError: a TTL that elapses between the
\* membership test and the read of the key makes the lookup a miss.
C6_LookupNeverFaults == last.error # "KeyError"

\* C7: no cache holds more entries than its maximum entry count.
C7_CacheCapacity ==
    /\ Len(_pitcher_cache) <= MaxSize
    /\ Len(_batter_cache) <= MaxSize
    /\ Cardinality(DOMAIN _season_data_cache) <= SeasonMaxSize

\* C8: whenever the provider returned a non-empty frame to a single-player
\* call or to a batch worker, a profile was built whose total is the number
\* of rows of the frame.
C8_ProfileWheneverEvents ==
    /\ (/\ last.op \in SinglePlayerOps
        /\ last.called /\ last.prov = "ok"
        /\ LastFrame # "empty")
       => /\ last.outcome = "profile"
          /\ last.op = "get_pitcher"
                => last.value.total_pitches = FrameLen(Frames[LastFrame])
          /\ last.op = "get_batter"
                => last.value.total_pitches_seen = FrameLen(Frames[LastFrame])
    /\ \A r \in Reqs : \A i \in 1..Len(batch[r].tasks) :
          (/\ batch[r].tasks[i].st = "done"
           /\ ~batch[r].tasks[i].failed
           /\ provider.batter[batch[r].ids_to_fetch[i]] # "empty")
          => /\ batch[r].tasks[i].result # None
             /\ batch[r].tasks[i].result.total_pitches_seen =
                   FrameLen(Frames[provider.batter[batch[r].ids_to_fetch[i]]])

\* C9: a single-player call to which the provider returned an empty frame
\* returns None and does not raise; the result of a batch call has no None
\* entry and no profile of a player whose frame is empty.
C9_NoDataIsNotAnError ==
    /\ (/\ last.op \in SinglePlayerOps
        /\ last.called /\ last.prov = "ok"
        /\ LastFrame = "empty")
       => (last.outcome = "none" /\ last.error = "" /\ last.value = None)
    /\ \A r \in Done : \A k \in 1..Len(batch[r].result) :
          /\ batch[r].result[k] # None
          /\ provider.batter[batch[r].result[k].batter_id] # "empty"

\* a batch call ended that fetched a player without data next to one with
\* data, and then a single-player call found no data
C9_Witness ==
    /\ last.op \in SinglePlayerOps /\ last.called /\ last.prov = "ok"
    /\ LastFrame = "empty" /\ last.outcome = "none"
    /\ \E r \in Done :
          /\ batch[r].result # <<>>
          /\ \E i \in 1..Len(batch[r].tasks) :
                /\ i \notin Failed(r)
                /\ provider.batter[batch[r].ids_to_fetch[i]] = "empty"

\* C10: a single-player call whose provider call failed raises the
\* provider's error; a batch worker whose provider call failed yields no
\* profile, and the call returns the cache hits and the profiles built.
C10_FailurePropagation ==
    /\ (last.op \in SinglePlayerOps /\ last.called /\ last.prov = "fail")
       => (last.outcome = "raised" /\ last.error = "ProviderError" /\ last.value = None)
    /\ \A r \in Reqs : Failed(r) \cap Built(r) = {}
    /\ \A r \in Ended :
          /\ batch[r].pc = "done"
          /\ Len(batch[r].result) =
                Len(batch[r].ids) - Len(batch[r].ids_to_fetch) + Cardinality(Built(r))

\* a batch call ended in which a worker's provider call failed, and then the
\* provider call of a single-player call failed
C10_Witness ==
    /\ last.op \in SinglePlayerOps /\ last.called /\ last.prov = "fail"
    /\ last.outcome = "raised"
    /\ \E r \in Done : Failed(r) # {}

\* the workers of all batch calls that are running a provider fetch
RunningWorkers == {<<r, i>> \in Reqs \X (1..MaxBatch) : i \in Running(batch[r].tasks)}

\* C11: at no moment are more than max_workers provider fetches of batch
\* calls running, however many calls overlap.
C11_BoundedConcurrency == Cardinality(RunningWorkers) <= max_workers

\* C12: every id of a batch call that missed the cache is fetched from the
\* provider by a worker of that call, whatever other calls are fetching:
\* a call awaiting its workers has one future per id that was not a hit.
C12_NoSingleFlight ==
    \A r \in Reqs :
        batch[r].pc = "fetching" =>
            Len(batch[r].tasks) = Len(batch[r].ids) - Len(batch[r].profiles)

\* two calls in flight have each fetched the same player of the same season
\* from the provider, and neither result is in the cache yet
C12_Witness ==
    \E r1, r2 \in Reqs :
        /\ r1 < r2
        /\ batch[r1].pc = "fetching" /\ batch[r2].pc = "fetching"
        /\ batch[r1].season = batch[r2].season
        /\ \E i \in 1..Len(batch[r1].tasks), k \in 1..Len(batch[r2].tasks) :
              /\ batch[r1].ids_to_fetch[i] = batch[r2].ids_to_fetch[k]
              /\ batch[r1].tasks[i].st = "done" /\ ~batch[r1].tasks[i].failed
              /\ batch[r2].tasks[k].st = "done" /\ ~batch[r2].tasks[k].failed
              /\ BatterKey(batch[r1].ids_to_fetch[i], batch[r1].season)
                    \notin KeysOf(_batter_cache)

---------------------------------------------------------------------------
(* Properties of the builders                                              *)

Codes == {"CH", "FF", "SL"}

\* the number of events of a collection that carry the pitch type pt
RECURSIVE EventsWith(_, _, _)
EventsWith(blocks, pt, k) ==
    IF k = 0 THEN 0
    ELSE (IF blocks[k].row.pitch_type = pt THEN blocks[k].n ELSE 0)
           + EventsWith(blocks, pt, k - 1)

Events(pt) == EventsWith(agg.data, pt, Len(agg.data))
TotalEvents == Events("CH") + Events("FF") + Events("SL") + Events(NULL)

\* some pitch type of the collection has fewer events than the threshold
Filtered(threshold) == \E pt \in Codes : Events(pt) > 0 /\ Events(pt) < threshold

RECURSIVE SumField(_, _, _)
SumField(list, field, k) ==
    IF k = 0 THEN 0 ELSE list[k][field] + SumField(list, field, k - 1)

AggBuilt == agg.out # NoOut
PitcherCounts == SumField(agg.out.pitcher.pitches, "pitches_thrown",
                          Len(agg.out.pitcher.pitches))
BatterCounts == SumField(agg.out.batter.vs_pitch_types, "pitches_seen",
                         Len(agg.out.batter.vs_pitch_types))

\* C13, as stated: the counts of the qualifying pitch types of a profile sum
\* to at most the profile's total event count, and to exactly the total if
\* and only if no pitch type was filtered out by the minimum-sample threshold.
C13_CountsSumToTotal ==
    AggBuilt =>
        /\ PitcherCounts <= agg.out.pitcher.total_pitches
        /\ (PitcherCounts = agg.out.pitcher.total_pitches)
              <=> ~Filtered(min_pitches_for_pitch_type)
        /\ BatterCounts <= agg.out.batter.total_pitches_seen
        /\ (BatterCounts = agg.out.batter.total_pitches_seen)
              <=> ~Filtered(min_pitches_seen)

\* C13, amended: the counts of the qualifying pitch types sum to at most the
\* total event count, which is the number of all events of the collection,
\* and to exactly the total if and only if no pitch type was filtered out
\* and no event has a null pitch type.
C13_CountsSumToTotalUnlessNull ==
    AggBuilt =>
        /\ agg.out.pitcher.total_pitches = TotalEvents
        /\ agg.out.batter.total_pitches_seen = TotalEvents
        /\ PitcherCounts <= agg.out.pitcher.total_pitches
        /\ (PitcherCounts = agg.out.pitcher.total_pitches)
              <=> (~Filtered(min_pitches_for_pitch_type) /\ Events(NULL) = 0)
        /\ BatterCounts <= agg.out.batter.total_pitches_seen
        /\ (BatterCounts = agg.out.batter.total_pitches_seen)
              <=> (~Filtered(min_pitches_seen) /\ Events(NULL) = 0)

\* profiles built of a collection with an event without a pitch type in
\* which every pitch type qualifies for both roles: the counts sum to less
\* than the total
C13_Witness ==
    /\ AggBuilt
    /\ Events(NULL) > 0
    /\ ~Filtered(min_pitches_for_pitch_type) /\ ~Filtered(min_pitches_seen)
    /\ PitcherCounts > 0 /\ PitcherCounts < agg.out.pitcher.total_pitches
    /\ BatterCounts > 0 /\ BatterCounts < agg.out.batter.total_pitches_seen

\* the reported usage shares of a pitcher profile, in tenths of a percent
UsageSum == SumField(agg.out.pitcher.pitches, "usage_pct",
                     Len(agg.out.pitcher.pitches))

\* C14, as stated: the reported usage shares of the qualifying pitch types
\* sum to at most 100, and to strictly less than 100 whenever a pitch type
\* was filtered out for low sample size.
C14_UsageSharesAtMost100 ==
    AggBuilt =>
        /\ UsageSum <= 1000
        /\ Filtered(min_pitches_for_pitch_type) => UsageSum < 1000

\* C14, amended: each reported share is within 0.05 of the exact share
\* 100 * count / total, so the reported shares sum to at most 100 plus 0.05
\* per qualifying pitch type; the exact shares sum to at most 100, and to
\* strictly less than 100 whenever a pitch type was filtered out.
C14_UsageSharesWithinRounding ==
    AggBuilt =>
        LET pitches == agg.out.pitcher.pitches
            total == agg.out.pitcher.total_pitches
        IN  /\ \A i \in 1..Len(pitches) :
                  /\ 2 * (pitches[i].usage_pct * total
                            - 1000 * pitches[i].pitches_thrown) <= total
                  /\ 2 * (1000 * pitches[i].pitches_thrown
                            - pitches[i].usage_pct * total) <= total
            /\ 2 * UsageSum <= 2000 + Len(pitches)
            /\ PitcherCounts <= total
            /\ Filtered(min_pitches_for_pitch_type) => PitcherCounts < total

\* a pitcher profile whose reported shares sum to more than 100
C14_Witness == AggBuilt /\ UsageSum > 1000

\* C15: the usage share of a qualifying pitch type is 100 times the size of
\* its group divided by the number of the player's events that have a
\* non-null pitch type, rounded to 1 decimal.
C15_UsageShareOfNonNull ==
    AggBuilt =>
        \A i \in 1..Len(agg.out.pitcher.pitches) :
            agg.out.pitcher.pitches[i].usage_pct =
                RoundHalfEven(1000 * agg.out.pitcher.pitches[i].pitches_thrown,
                              TotalEvents - Events(NULL))

\* the entries of an aggregate list are the pitch types with at least
\* threshold events, each once, with the number of its events as its count
ListsQualifying(list, field, threshold) ==
    /\ \A i \in 1..Len(list) :
          /\ list[i].pitch_type \in Codes
          /\ list[i][field] = Events(list[i].pitch_type)
    /\ \A pt \in Codes :
          Cardinality({i \in 1..Len(list) : list[i].pitch_type = pt})
              = IF Events(pt) >= threshold THEN 1 ELSE 0

\* C16: a pitch-type code appears in the aggregate list if and only if the
\* number of the player's events carrying that code is at least the role's
\* threshold (min_pitches_for_pitch_type for the pitcher role, 20 for the
\* batter role); it then appears exactly once with that number as its
\* count, and events with a null pitch type belong to no group.
C16_MinimumSampleFilter ==
    AggBuilt =>
        /\ ListsQualifying(agg.out.pitcher.pitches, "pitches_thrown",
                           min_pitches_for_pitch_type)
        /\ ListsQualifying(agg.out.batter.vs_pitch_types, "pitches_seen", 20)

\* a collection with events without a pitch type in which one pitch type
\* has exactly the pitcher threshold of events and is listed for the
\* pitcher, and another has one event less than the batter threshold and is
\* not listed for the batter
C16_Witness ==
    /\ AggBuilt
    /\ Events(NULL) > 0
    /\ \E i \in 1..Len(agg.out.pitcher.pitches) :
          agg.out.pitcher.pitches[i].pitches_thrown = min_pitches_for_pitch_type
    /\ \E pt \in Codes :
          /\ Events(pt) = min_pitches_seen - 1
          /\ \A i \in 1..Len(agg.out.batter.vs_pitch_types) :
                agg.out.batter.vs_pitch_types[i].pitch_type # pt

\* the number of events of the collection with pitch type pt whose events
\* value is in evs, and whose description is in descs
RECURSIVE EventsIn(_, _, _, _)
EventsIn(blocks, pt, evs, k) ==
    IF k = 0 THEN 0
    ELSE (IF blocks[k].row.pitch_type = pt /\ blocks[k].row.events \in evs
          THEN blocks[k].n ELSE 0) + EventsIn(blocks, pt, evs, k - 1)

RECURSIVE DescribedIn(_, _, _, _)
DescribedIn(blocks, pt, descs, k) ==
    IF k = 0 THEN 0
    ELSE (IF blocks[k].row.pitch_type = pt /\ blocks[k].row.description \in descs
          THEN blocks[k].n ELSE 0) + DescribedIn(blocks, pt, descs, k - 1)

AtBats(pt) == EventsIn(agg.data, pt, ab_events, Len(agg.data))
Swings(pt) == DescribedIn(agg.data, pt, swing_descriptions, Len(agg.data))

\* every rate of every entry is a number in its range, and is 0 where its
\* denominator is
RatesSafe(list) ==
    \A i \in 1..Len(list) :
        /\ list[i].batting_avg \in 0..1000
        /\ list[i].slg_pct \in 0..4000
        /\ list[i].whiff_pct \in 0..1000
        /\ list[i].hr_rate \in 0..10000
        /\ AtBats(list[i].pitch_type) = 0 =>
              list[i].batting_avg = 0 /\ list[i].slg_pct = 0
        /\ Swings(list[i].pitch_type) = 0 => list[i].whiff_pct = 0

\* C17: in both aggregators a qualifying pitch-type group without
\* at-bat-terminal events has batting average 0 and slugging 0, and a group
\* without swing-type descriptions has whiff rate 0; no event collection
\* makes a division of the aggregation fault.
C17_ZeroDenominatorSafety ==
    AggBuilt =>
        RatesSafe(agg.out.pitcher.pitches) /\ RatesSafe(agg.out.batter.vs_pitch_types)

\* both roles list a pitch type that has neither an at-bat-terminal event
\* nor a swing
C17_Witness ==
    /\ AggBuilt
    /\ \E i \in 1..Len(agg.out.pitcher.pitches) :
          /\ AtBats(agg.out.pitcher.pitches[i].pitch_type) = 0
          /\ Swings(agg.out.pitcher.pitches[i].pitch_type) = 0
    /\ \E i \in 1..Len(agg.out.batter.vs_pitch_types) :
          /\ AtBats(agg.out.batter.vs_pitch_types[i].pitch_type) = 0
          /\ Swings(agg.out.batter.vs_pitch_types[i].pitch_type) = 0

\* C18: the pitcher aggregator and the batter aggregator return the same
\* aggregate list, with the same elements in the same order, for an event
\* collection and for every permutation of it.
C18_OrderIndependence ==
    AggBuilt =>
        /\ agg.out.pitcher.pitches = agg.first.pitcher.pitches
        /\ agg.out.batter.vs_pitch_types = agg.first.batter.vs_pitch_types

Descending(list, field) ==
    \A i \in 1..Len(list), j \in 1..Len(list) :
        i < j => list[i][field] >= list[j][field]

\* C19: the pitcher aggregate list is in descending (non-increasing) order
\* of usage share, and the batter aggregate list is in descending
\* (non-increasing) order of raw pitch count.
C19_OutputOrdering ==
    AggBuilt =>
        /\ Descending(agg.out.pitcher.pitches, "usage_pct")
        /\ Descending(agg.out.batter.vs_pitch_types, "pitches_seen")

\* both lists begin with a pitch type that comes later in the order of the
\* groups than the one it is followed by, and has strictly more events
C19_Witness ==
    /\ AggBuilt
    /\ Len(agg.out.pitcher.pitches) = 2
    /\ agg.out.pitcher.pitches[1].pitch_type = "SL"
    /\ agg.out.pitcher.pitches[2].pitch_type = "FF"
    /\ agg.out.pitcher.pitches[1].usage_pct > agg.out.pitcher.pitches[2].usage_pct
    /\ Len(agg.out.batter.vs_pitch_types) = 2
    /\ agg.out.batter.vs_pitch_types[1].pitch_type = "SL"
    /\ agg.out.batter.vs_pitch_types[2].pitch_type = "FF"
    /\ agg.out.batter.vs_pitch_types[1].pitches_seen
          > agg.out.batter.vs_pitch_types[2].pitches_seen

\* the number of events of the collection whose column col holds v
RECURSIVE Holding(_, _, _, _)
Holding(blocks, col, v, k) ==
    IF k = 0 THEN 0
    ELSE (IF blocks[k].row[col] = v THEN blocks[k].n ELSE 0)
           + Holding(blocks, col, v, k - 1)

\* no value of the column occurs in more events than v does
MostFrequent(col, v) ==
    \A k \in 1..Len(agg.data) :
        Holding(agg.data, col, agg.data[k].row[col], Len(agg.data))
            <= Holding(agg.data, col, v, Len(agg.data))

\* C20: the team of a profile is the most frequent team among the player's
\* events and its handedness is the most frequent handedness value among
\* them, for the pitcher profile and for the batter profile, whatever the
\* order of the rows.
C20_MetadataMostFrequent ==
    AggBuilt =>
        /\ MostFrequent("home_team", agg.out.pitcher.team)
        /\ MostFrequent("p_throws", agg.out.pitcher.throws)
        /\ MostFrequent("stand", agg.out.batter.bats)
        /\ agg.out.pitcher.throws = agg.first.pitcher.throws
        /\ agg.out.batter.bats = agg.first.batter.bats
        /\ agg.out.batter.team = agg.first.batter.team

---------------------------------------------------------------------------
(* Further properties of the handlers                                      *)

\* the rows r of the 120-pitch frame with pitch type pt
ScenarioRows(pt) == SelectSeq(QualRows, LAMBDA r : r.pitch_type = pt)

\* the 120-pitch frame is the scenario: 70 fastballs without swing or hit,
\* 50 sliders with 10 whiffs in 20 swings and 5 hits, 1 of them a home run,
\* in 15 at-bat-terminal events
IsScenario ==
    /\ Len(QualRows) = 120
    /\ Len(ScenarioRows("FF")) = 70 /\ Len(ScenarioRows("SL")) = 50
    /\ \A i \in 1..70 :
          /\ ScenarioRows("FF")[i].description \notin swing_descriptions
          /\ ScenarioRows("FF")[i].events \notin hit_events
    /\ Cardinality({i \in 1..50 : ScenarioRows("SL")[i].description
                                     \in whiff_descriptions}) = 10
    /\ Cardinality({i \in 1..50 : ScenarioRows("SL")[i].description
                                     \in swing_descriptions}) = 20
    /\ Cardinality({i \in 1..50 : ScenarioRows("SL")[i].events \in hit_events}) = 5
    /\ Cardinality({i \in 1..50 : ScenarioRows("SL")[i].events \in ab_events}) = 15
    /\ Cardinality({i \in 1..50 : ScenarioRows("SL")[i].events = "home_run"}) = 1

\* C21: for the pitcher with 120 pitches, 70 fastballs and 50 sliders, both
\* pitch types are listed, the fastball first with usage 58.3, then the
\* slider with usage 41.7, whiff rate 50.0 and HR rate 0.02.
C21_ConcreteScenario ==
    (last.op = "get_pitcher" /\ last.outcome = "profile" /\ LastFrame = "qual")
    => /\ Len(last.value.pitches) = 2
       /\ last.value.pitches[1].pitch_type = "FF"
       /\ last.value.pitches[1].usage_pct = 583
       /\ last.value.pitches[2].pitch_type = "SL"
       /\ last.value.pitches[2].usage_pct = 417
       /\ last.value.pitches[2].whiff_pct = 500
       /\ last.value.pitches[2].hr_rate = 200

\* get_pitcher_profile called the provider, was answered with the frame of
\* the scenario and returned the profile it built
C21_Witness ==
    /\ IsScenario
    /\ last.op = "get_pitcher" /\ last.called /\ last.prov = "ok"
    /\ last.outcome = "profile" /\ LastFrame = "qual"
    /\ min_pitches_for_pitch_type = 50

\* a step of one of the single-player handlers: a call is counted and no
\* batch call starts
SinglePlayerStep ==
    /\ calls' = calls + 1
    /\ last'.op \in SinglePlayerOps
    /\ \A r \in Reqs : batch'[r].pc = batch[r].pc

\* the call ended in NoData or in a failure of the provider
Unsuccessful(l) ==
    l.called /\ (l.outcome = "none" \/ (l.outcome = "raised" /\ l.error = "ProviderError"))

\* a step in which batch call r returns its profiles after its workers ran
CollectStep(r) == batch[r].pc = "fetching" /\ batch'[r].pc = "done"

\* the ids call r fetched and leaves out of its result
Omitted(r) ==
    {batch[r].ids_to_fetch[i] : i \in 1..Len(batch[r].tasks)}
        \ {batch[r].ids_to_fetch[i] : i \in Built(r)}

\* between the caches before and after, the entry of key was neither added
\* nor replaced, and not removed while it was live at time t unless the cache
\* evicted it for capacity
EntryKept(before, after, key, t, evicted) ==
    /\ key \in KeysOf(after)
          => key \in KeysOf(before) /\ EntryOf(after, key) = EntryOf(before, key)
    /\ Contains(before, key, t) => key \in KeysOf(after) \/ key \in evicted

\* a single-player call that ends so leaves the three caches as they were,
\* and its key has no live entry afterwards
SingleLeavesCaches ==
    (SinglePlayerStep /\ Unsuccessful(last')) =>
        (/\ UNCHANGED <<_pitcher_cache, _batter_cache, _season_data_cache>>
         /\ (last'.op = "get_pitcher" =>
                ~Contains(_pitcher_cache', PitcherKey(last'.id, last'.season), now'))
         /\ (last'.op = "get_batter" =>
                ~Contains(_batter_cache', BatterKey(last'.id, last'.season), now')))

\* the next call for the same key calls the provider
NextCallsProvider ==
    (/\ SinglePlayerStep /\ Unsuccessful(last)
     /\ last'.op = last.op /\ last'.id = last.id /\ last'.season = last.season)
        => last'.called

\* get_season_statcast_data stores nothing when the provider raises, and
\* never an empty frame
SeasonLeavesCache ==
    (calls' = calls + 1 /\ last'.op = "get_season_statcast_data") =>
        (/\ (last'.outcome = "raised" => UNCHANGED _season_data_cache)
         /\ \A s \in DOMAIN _season_data_cache' :
               ~IsEmpty(Frames[_season_data_cache'[s]]))

\* a batch call that returns leaves the entry of every id it omits
BatchLeavesOmitted ==
    \A r \in Reqs : CollectStep(r) =>
        (/\ UNCHANGED <<_pitcher_cache, _season_data_cache>>
         /\ \A id \in Omitted(r) :
               EntryKept(_batter_cache, _batter_cache',
                         BatterKey(id, batch[r].season), now, hist'.evicted))

\* C22: a request that ends in NoData or in a provider failure writes nothing
\* to the caches.  A single-player call that returns absent or raises because
\* the provider raised leaves all three caches as they were, its key has no
\* live entry afterwards, and the next call for the same key calls the
\* provider again; get_season_statcast_data leaves its cache as it was when
\* the provider raises and never stores an empty frame; and when a batch
\* call returns, the key of every id it leaves out has the entry it had
\* before (none added, none replaced, no live one removed).
C22_FailureLeavesCaches ==
    [][SingleLeavesCaches /\ NextCallsProvider /\ SeasonLeavesCache
          /\ BatchLeavesOmitted]_vars

\* a batch call returned without a player whose provider call failed, after
\* storing a sibling's profile, and the player's key has no entry; before it
\* a single-player call had its own outcome
C22_Witness ==
    \E r \in Done : \E i \in Failed(r), k \in Built(r) :
        /\ batch[r].ids_to_fetch[i] \notin {batch[r].ids_to_fetch[x] : x \in Built(r)}
        /\ BatterKey(batch[r].ids_to_fetch[i], batch[r].season) \notin KeysOf(_batter_cache)
        /\ BatterKey(batch[r].ids_to_fetch[k], batch[r].season) \in KeysOf(_batter_cache)
        /\ last.op = "get_batters_batch" /\ last.req = r
        /\ calls = MaxCalls

\* the profile cache and the key of a single-player call l
CacheOf(l, pitchers, batters) == IF l.op = "get_pitcher" THEN pitchers ELSE batters
KeyOf(l) ==
    IF l.op = "get_pitcher" THEN PitcherKey(l.id, l.season) ELSE BatterKey(l.id, l.season)
TTLOf(l) == IF l.op = "get_pitcher" THEN cache_ttl_pitchers ELSE cache_ttl_batters

\* the call l called the provider, built a profile and stored it
BuiltAndStored(l) == l.op \in SinglePlayerOps /\ l.called /\ l.outcome = "profile"

\* check and write are one step: a single-player call that stores a profile
\* found no live entry in the state it started from, and its entry is live
\* in the state it leaves
CheckAndWriteTogether ==
    (SinglePlayerStep /\ BuiltAndStored(last')) =>
        (/\ ~Contains(CacheOf(last', _pitcher_cache, _batter_cache), KeyOf(last'), now)
         /\ Contains(CacheOf(last', _pitcher_cache', _batter_cache'), KeyOf(last'), now')
         /\ EntryOf(CacheOf(last', _pitcher_cache', _batter_cache'), KeyOf(last')).obj.oid
               = last'.value.oid)

\* the second request for the key, made while the first one's entry is
\* within its TTL, does not call the provider and gets the first one's object
SecondSeesFirst ==
    (/\ BuiltAndStored(last) /\ SinglePlayerStep
     /\ last'.op = last.op /\ KeyOf(last') = KeyOf(last)
     /\ now' < last.time + TTLOf(last))
        => (/\ ~last'.called /\ last'.hit
            /\ last'.outcome = "profile"
            /\ last'.value.oid = last.value.oid)

\* whenever the second request tests the key before the entry's expiry, it
\* does not call the provider
NeverBothCall ==
    (/\ BuiltAndStored(last) /\ SinglePlayerStep
     /\ last'.op = last.op /\ KeyOf(last') = KeyOf(last)
     /\ now < last.time + TTLOf(last)) => ~last'.called

\* C23: a single-player call checks the cache and stores its profile in one
\* step of the event loop, so of two get_pitcher_profile (get_batter_profile)
\* calls for the same (player, season), the second made while the entry the
\* first one stored is within its TTL, only the first calls the provider; the
\* second returns the object the first one stored.
C23_SinglePlayerAtomic ==
    [][CheckAndWriteTogether /\ SecondSeesFirst /\ NeverBothCall]_vars

\* both calls were single-player calls for one key, no batch call ever
\* started, half the TTL passed between them, and the second was served
\* from the cache
C23_Witness ==
    /\ calls = MaxCalls /\ \A r \in Reqs : batch[r].pc = "idle"
    /\ last.op \in SinglePlayerOps /\ last.hit /\ ~last.called
    /\ last.outcome = "profile"
    /\ last.at = TickStep /\ TickStep < TTLOf(last)
    /\ Contains(CacheOf(last, _pitcher_cache, _batter_cache), KeyOf(last), now)

\* the ids in the sequence ids that have (hit) or lack (~hit) a live entry in
\* cache at time t, in the order of ids
IdsByHit(ids, season, cache, t, hit) ==
    SelectSeq(ids, LAMBDA id : Contains(cache, BatterKey(id, season), t) = hit)

\* the ids call r fetched successfully, in the order of the request
BuiltIds(r) ==
    SelectSeq([i \in 1..Len(batch[r].tasks) |->
                  IF i \in Built(r) THEN batch[r].ids_to_fetch[i] ELSE 0],
              LAMBDA id : id # 0)

\* the ids of the request that call r did not hand to the workers
HitIds(r) ==
    SelectSeq(batch[r].ids,
              LAMBDA id : \A i \in 1..Len(batch[r].ids_to_fetch) :
                             batch[r].ids_to_fetch[i] # id)

Count(s, x) == Cardinality({i \in 1..Len(s) : s[i] = x})

\* the cache check of a batch call splits the input by what the cache holds
\* when the call arrives, keeping the input order on both sides
SplitAtCallTime ==
    \A r \in Reqs :
        /\ (batch[r].pc # "fetching" /\ batch'[r].pc = "fetching")
              => /\ IdsOf(batch'[r].profiles)
                      = IdsByHit(batch'[r].ids, batch'[r].season, _batter_cache, now, TRUE)
                 /\ batch'[r].ids_to_fetch
                      = IdsByHit(batch'[r].ids, batch'[r].season, _batter_cache, now, FALSE)
        /\ (/\ calls' = calls + 1 /\ last'.op = "get_batters_batch" /\ last'.req = r
            /\ batch'[r].pc = "done")
              => /\ IdsOf(batch'[r].result) = batch'[r].ids
                 /\ batch'[r].ids
                      = IdsByHit(batch'[r].ids, batch'[r].season, _batter_cache, now, TRUE)
        /\ (batch[r].pc = "fetching" /\ batch'[r].pc = "done")
              => /\ batch'[r].ids_to_fetch = batch[r].ids_to_fetch
                 /\ Len(batch'[r].result) >= Len(batch[r].profiles)
                 /\ \A i \in 1..Len(batch[r].profiles) :
                       batch'[r].result[i].oid = batch[r].profiles[i].oid

\* the result of a returned call: the hits, then the fetched and built, each
\* in input order; only ids of the input, none more often than in the input
ResultShape ==
    \A r \in Done :
        /\ IdsOf(batch[r].result) = HitIds(r) \o BuiltIds(r)
        /\ \A id \in BatterIds :
              Count(IdsOf(batch[r].result), id) <= Count(batch[r].ids, id)

\* C24: the result of get_batters_batch_fast is the profiles of the input
\* ids that had a live cache entry when the call arrived, in input order,
\* followed by the profiles of the ids whose worker built one, in input order
\* whichever worker finished first; every profile's batter id is an id of the
\* input and occurs in the result at most as often as in the input.
C24_BatchResultOrder ==
    [][SplitAtCallTime /\ ResultShape']_vars

\* a call returned two profiles: the hit came second in the input and first
\* in the result, before the profile that was fetched
C24_Witness ==
    \E r \in Done :
        /\ Len(batch[r].ids) = 2 /\ batch[r].ids[1] # batch[r].ids[2]
        /\ batch[r].ids_to_fetch = <<batch[r].ids[1]>>
        /\ Built(r) = {1}
        /\ IdsOf(batch[r].result) = <<batch[r].ids[2], batch[r].ids[1]>>

---------------------------------------------------------------------------
(* The builders on one pitch type with every kind of batted-ball event,    *)
(* and on a season's workload                                              *)

\* the kinds of event of a plate appearance, as (events, description)
EventKinds ==
    {<<"single", "hit_into_play">>, <<"double", "hit_into_play">>,
     <<"triple", "hit_into_play_score">>, <<"home_run", "hit_into_play_score">>,
     <<"strikeout", "swinging_strike">>, <<"field_out", "hit_into_play">>,
     <<"sac_fly", "hit_into_play_score">>, <<"walk", "ball">>,
     <<NULL, "foul">>, <<NULL, "swinging_strike_blocked">>}

\* one event of a kind, thrown as a slider
KindBlocks == {Block(Row("SL", k[1], k[2], Dbl["0"]), 1) : k \in EventKinds}

\* 50 sliders taken, and two more events of any kind
RateCollections ==
    {<<Block(TakeRow("SL"), 50), b1, b2>> : b1 \in KindBlocks, b2 \in KindBlocks}

\* a season of 1001 pitches: 500 changeups and 501 fastballs
SeasonCollections == {<<Block(TakeRow("CH"), 500), Block(TakeRow("FF"), 501)>>}

InitRates ==
    /\ InitProgram
    /\ \E blocks \in RateCollections \cup SeasonCollections :
          agg = [data |-> blocks, first |-> NoOut, out |-> NoOut]

RatesSpec == InitRates /\ [][NextAgg]_vars

\* C25: the aggregate list of a pitcher profile is in non-increasing order
\* of pitches_thrown: no pitch type precedes one that was thrown strictly
\* more often.
C25_ThrownOrder ==
    AggBuilt => Descending(agg.out.pitcher.pitches, "pitches_thrown")

\* the counts of the group of pitch type pt of the collection
CountsOf(pt) ==
    GroupCounts(Group(NotNaPitchType(DataOf(agg.data).rows), pt), AllColumns)

\* the unrounded rates of a group are in their ranges: as quotients of the
\* counts c, batting average hits / abs_count, slugging total_bases /
\* abs_count (both 0 without at-bats), whiff rate 100 * whiffs / swings (0
\* without swings) and home-run rate homers / n
InRange(c) ==
    /\ 0 <= c.hits /\ c.hits <= c.abs_count
    /\ c.hits <= c.total_bases /\ c.total_bases <= 4 * c.hits
    /\ 0 <= c.whiffs /\ c.whiffs <= c.swings
    /\ 0 <= c.homers /\ c.homers <= c.n /\ c.n > 0

\* the entry e of an aggregate list reports the quotients of the counts c
Reports(e, c) ==
    /\ e.batting_avg = IF c.abs_count > 0 THEN RoundHalfEven(1000 * c.hits, c.abs_count) ELSE 0
    /\ e.slg_pct = IF c.abs_count > 0
                   THEN RoundHalfEven(1000 * c.total_bases, c.abs_count) ELSE 0
    /\ e.whiff_pct = IF c.swings > 0 THEN RoundHalfEven(1000 * c.whiffs, c.swings) ELSE 0
    /\ e.hr_rate = RoundHalfEven(10000 * c.homers, c.n)

RatesOf(list) ==
    \A i \in 1..Len(list) :
        \E c \in {CountsOf(list[i].pitch_type)} : InRange(c) /\ Reports(list[i], c)

\* C26: for every aggregate either aggregator produces, the counts its rates
\* are quotients of satisfy hits <= at-bat-terminal events, hits <= total
\* bases <= 4 x hits, whiffs <= swings and home runs <= pitches, so that
\* before rounding 0 <= batting average <= 1, batting average <= slugging
\* <= 4 x batting average, 0 <= whiff rate <= 100 and 0 <= HR rate <= 1.
C26_RateRanges ==
    AggBuilt => RatesOf(agg.out.pitcher.pitches) /\ RatesOf(agg.out.batter.vs_pitch_types)

\* both aggregates of 52 sliders with a home run and a swinging strikeout:
\* batting average .500, slugging 2.000, four times the average, whiff rate
\* 50.0 and a positive home-run rate
C26_Witness ==
    /\ AggBuilt
    /\ Len(agg.out.pitcher.pitches) = 1 /\ Len(agg.out.batter.vs_pitch_types) = 1
    /\ CountsOf("SL").hits = 1 /\ CountsOf("SL").abs_count = 2
    /\ CountsOf("SL").total_bases = 4 /\ CountsOf("SL").homers = 1
    /\ CountsOf("SL").whiffs = 1 /\ CountsOf("SL").swings = 2
    /\ \A e \in {agg.out.pitcher.pitches[1], agg.out.batter.vs_pitch_types[1]} :
          /\ e.batting_avg = 500 /\ e.slg_pct = 2000
          /\ e.whiff_pct = 500 /\ e.hr_rate > 0

===========================================================================
